---- MODULE Spec2Model ----
(***************************************************************************)
(* Model of the compare tool's matching engine (src/app.js): token         *)
(* normalisation, query parsing, product tokenisation, the protein purity  *)
(* classifier, computeMatch, and the render / search / remove / clear      *)
(* handlers of the page.                                                   *)
(*                                                                         *)
(* JavaScript strings are modelled by TLA+ strings, which are sequences    *)
(* of characters: Len, SubSeq and \o are the only primitives used.         *)
(***************************************************************************)
EXTENDS Integers, Sequences, FiniteSets, TLC

VARIABLES
    pc,                 \* position of the modelled call sequence
    raw,                \* argument handed to normalizeToken
    once,               \* normalizeToken(raw)
    twice,              \* normalizeToken(normalizeToken(raw))
    variants,           \* simplePluralVariants(raw)
    sources,            \* argument handed to evaluateProteinPurity
    purity,             \* its return value
    query,              \* query string handed to parseQuery
    parsed,             \* its return value
    prodA,              \* product handed to computeMatch
    resA,               \* its completion (a MatchResult or a TypeError)
    prodB,              \* second product of a pairwise comparison
    resB,               \* its completion
    products,           \* init: the loaded catalog
    inputValue,         \* value of the query input box
    currentState,       \* init: currentState
    removedProductIds,  \* init: removedProductIds
    debouncePending,    \* init: debounceTimer is set and has not fired
    cards,              \* the cards in the results container
    clicked             \* history: the products whose remove button was
                        \* clicked since the last click on Clear

normVars == <<raw, once, twice, variants>>
purityVars == <<sources, purity>>
matchVars == <<query, parsed, prodA, resA, prodB, resB>>
pageVars ==
    <<products, inputValue, currentState, removedProductIds, debouncePending, cards, clicked>>

vars == <<pc, normVars, purityVars, matchVars, pageVars>>

(***************************************************************************)
(* Bounds                                                                  *)
(***************************************************************************)
MaxStrLen == 4

MaxSources == 3

MaxIngredients == 2

MaxPairIngredients == 2

MaxRemoved == 2

(***************************************************************************)
(* String primitives (String.prototype methods used by app.js)             *)
(***************************************************************************)
Char(s, i) == SubSeq(s, i, i)

Rest(s) == SubSeq(s, 2, Len(s))

startsWith(s, p) == Len(p) <= Len(s) /\ SubSeq(s, 1, Len(p)) = p

endsWith(s, p) == Len(p) <= Len(s) /\ SubSeq(s, Len(s) - Len(p) + 1, Len(s)) = p

UpperLetters == "ABCDEFGHIJKLMNOPQRSTUVWXYZ"

LowerLetters == "abcdefghijklmnopqrstuvwxyz"

Digits == "0123456789"

CharsOf(s) == {Char(s, i) : i \in 1..Len(s)}

UpperChars == CharsOf(UpperLetters)

\* the character class [a-z0-9]
AlnumChars == CharsOf(LowerLetters) \cup CharsOf(Digits)

TokenChars == AlnumChars \cup {"_"}

\* the character class \s, as far as the modelled inputs use it
WhitespaceChars == {" ", "\t", "\n"}

LowerOf == [c \in UpperChars |->
               Char(LowerLetters, CHOOSE i \in 1..26 : Char(UpperLetters, i) = c)]

toLowerChar(c) == IF c \in UpperChars THEN LowerOf[c] ELSE c

RECURSIVE toLowerCase(_)
toLowerCase(s) ==
    IF s = "" THEN "" ELSE toLowerChar(Char(s, 1)) \o toLowerCase(Rest(s))

RECURSIVE stripLeading(_, _)
stripLeading(s, chars) ==
    IF s # "" /\ Char(s, 1) \in chars THEN stripLeading(Rest(s), chars) ELSE s

RECURSIVE stripTrailing(_, _)
stripTrailing(s, chars) ==
    IF s # "" /\ Char(s, Len(s)) \in chars
    THEN stripTrailing(SubSeq(s, 1, Len(s) - 1), chars)
    ELSE s

trim(s) == stripTrailing(stripLeading(s, WhitespaceChars), WhitespaceChars)

\* .replace(/[^a-z0-9]+/g, "_"): every maximal run of other characters
\* becomes one underscore
RECURSIVE replaceNonAlnumRuns(_, _)
replaceNonAlnumRuns(s, inRun) ==
    IF s = "" THEN ""
    ELSE IF Char(s, 1) \in AlnumChars
         THEN Char(s, 1) \o replaceNonAlnumRuns(Rest(s), FALSE)
         ELSE (IF inRun THEN "" ELSE "_") \o replaceNonAlnumRuns(Rest(s), TRUE)

\* .replace(/^_+|_+$/g, "")
stripUnderscores(s) == stripTrailing(stripLeading(s, {"_"}), {"_"})

\* mutation: the underscores are stripped before the runs are replaced
normalizeToken_StripFirst(s) ==
    replaceNonAlnumRuns(stripUnderscores(trim(toLowerCase(s))), FALSE)

normalizeToken(s) ==
    stripUnderscores(replaceNonAlnumRuns(trim(toLowerCase(s)), FALSE))

(***************************************************************************)
(* split: String.prototype.split with a single-character separator class.  *)
(* collapse = TRUE models a regex separator with "+" (a run of separators  *)
(* is one separator); empty pieces are kept, as in JavaScript.             *)
(***************************************************************************)
RECURSIVE splitFrom(_, _, _, _, _)
splitFrom(s, seps, collapse, cur, inRun) ==
    IF s = "" THEN <<cur>>
    ELSE IF Char(s, 1) \in seps
         THEN IF collapse /\ inRun
              THEN splitFrom(Rest(s), seps, collapse, cur, TRUE)
              ELSE <<cur>> \o splitFrom(Rest(s), seps, collapse, "", TRUE)
         ELSE splitFrom(Rest(s), seps, collapse, cur \o Char(s, 1), FALSE)

split(s, seps, collapse) == splitFrom(s, seps, collapse, "", FALSE)

\* Array.prototype.filter(Boolean) on an array of strings
RECURSIVE filterNonEmpty(_)
filterNonEmpty(seq) ==
    IF seq = <<>> THEN <<>>
    ELSE (IF Head(seq) = "" THEN <<>> ELSE <<Head(seq)>>) \o filterNonEmpty(Tail(seq))

Range(seq) == {seq[i] : i \in 1..Len(seq)}

(***************************************************************************)
(* Query parsing                                                           *)
(***************************************************************************)
\* t.slice(0, -n)
sliceEnd(t, n) == SubSeq(t, 1, Len(t) - n)

\* mutation: the endings are an else-if chain, only the first that matches
\* adds a variant
pluralVariantsOf_FirstEnding(t) ==
    {t}
    \cup (IF endsWith(t, "ies") THEN {sliceEnd(t, 3) \o "y"}
          ELSE IF endsWith(t, "oes") THEN {sliceEnd(t, 2)}
          ELSE IF endsWith(t, "es") THEN {sliceEnd(t, 2)}
          ELSE IF endsWith(t, "s") THEN {sliceEnd(t, 1)}
          ELSE {})

\* the variants of the normalised token t
pluralVariantsOf(t) ==
    {t}
    \cup (IF endsWith(t, "ies") THEN {sliceEnd(t, 3) \o "y"} ELSE {})
    \cup (IF endsWith(t, "oes") THEN {sliceEnd(t, 2)} ELSE {})
    \cup (IF endsWith(t, "es") THEN {sliceEnd(t, 2)} ELSE {})
    \cup (IF endsWith(t, "s") THEN {sliceEnd(t, 1)} ELSE {})

simplePluralVariants(tok) == pluralVariantsOf(normalizeToken(tok))

\* SYNONYMS[base] || []; the key "grain-free" is never looked up, a
\* normalised token has no hyphen
SYNONYMS(base) ==
    CASE base = "grainfree" -> {"grain_free", "no_grain", "no_grains"}
      [] base = "grain_free" -> {"grain_free", "no_grain", "no_grains", "grainfree"}
      [] base = "no_grain" -> {"grain_free", "no_grains", "grainfree"}
      [] base = "no_grains" -> {"grain_free", "no_grain", "grainfree"}
      [] base = "without_grain" -> {"grain_free", "no_grain", "no_grains", "grainfree"}
      [] base = "without_grains" -> {"grain_free", "no_grain", "no_grains", "grainfree"}
      [] base = "with_grain" -> {"contains_grain", "grain", "grains", "with_grains"}
      [] base = "with_grains" -> {"contains_grain", "grain", "grains", "with_grain"}
      [] base = "grains" -> {"contains_grain", "grain"}
      [] base = "grain" -> {"contains_grain", "grains", "with_grains", "with_grain"}
      [] base = "contains_grain" -> {"contains_grain"}
      [] base = "protein" -> {"has_protein", "protein"}
      [] base = "no_protein" -> {"no_protein"}
      [] base = "taste" -> {"taste", "taste_of_the_wild", "totw"}
      [] base = "totw" -> {"taste_of_the_wild"}
      [] OTHER -> {}

GRAIN_WITH_TOKENS == {"contains_grain", "grain", "grains", "with_grain", "with_grains"}

GRAIN_FREE_TOKENS ==
    {"grain_free", "grainfree", "no_grain", "no_grains", "without_grain", "without_grains"}

\* the set expandSynonyms builds from the normalised token base
synonymsOf(base) == {base} \cup SYNONYMS(base) \cup simplePluralVariants(base)

expandSynonyms(tok) == synonymsOf(normalizeToken(tok))

\* mutation: "grain_free" is missing from the override list
PHRASE_SYNONYM_OVERRIDES_NoGrainFree ==
    {"no_grain", "no_grains", "with_grain", "with_grains", "without_grain", "without_grains"}

PHRASE_SYNONYM_OVERRIDES ==
    {"grain_free", "no_grain", "no_grains", "with_grain", "with_grains",
     "without_grain", "without_grains"}

emptyParseResult ==
    [includeGroups |-> <<>>, excludes |-> {}, labelIncludes |-> {}, labelExcludes |-> {}]

\* mutation: a fused phrase keeps the synonyms of its first word
termGroup_KeepWord(base, phraseToken, skipNext) ==
    expandSynonyms(base)
    \cup (IF skipNext THEN expandSynonyms(phraseToken)
          ELSE IF phraseToken # ""
               THEN {phraseToken} \cup simplePluralVariants(phraseToken)
               ELSE {})

\* the token group of one term: the phrase's synonyms when the phrase is an
\* override, else the term's synonyms with the phrase and its variants
termGroup(base, phraseToken, skipNext) ==
    IF skipNext THEN expandSynonyms(phraseToken)
    ELSE expandSynonyms(base)
         \cup (IF phraseToken # ""
               THEN {phraseToken} \cup simplePluralVariants(phraseToken)
               ELSE {})

\* includeGroups.push(group) or group.forEach((t) => excludes.add(t)), with
\* the label of the term
addTerm(acc, isExclude, group, labelToken) ==
    IF isExclude
    THEN [acc EXCEPT !.excludes = @ \cup group, !.labelExcludes = @ \cup {labelToken}]
    ELSE [acc EXCEPT !.includeGroups = Append(@, group),
                     !.labelIncludes = @ \cup {labelToken}]

\* normalizeToken(parts[index + 1]) when there is a next part that is not an
\* exclusion, else ""
nextToken(parts, index) ==
    IF index + 1 <= Len(parts) /\ ~startsWith(parts[index + 1], "-")
    THEN normalizeToken(parts[index + 1])
    ELSE ""

\* one iteration of the for loop of parseQuery at cursor index (1-based),
\* then the rest of the loop
RECURSIVE parseFrom(_, _, _)
RECURSIVE parseTerm(_, _, _, _, _, _)
RECURSIVE parsePhrase(_, _, _, _, _, _)
parseFrom(parts, index, acc) ==
    IF index > Len(parts) THEN acc
    ELSE parseTerm(parts, index, acc, startsWith(parts[index], "-"),
             normalizeToken(IF startsWith(parts[index], "-")
                            THEN Rest(parts[index]) ELSE parts[index]),
             nextToken(parts, index))

parseTerm(parts, index, acc, isExclude, base, next) ==
    IF base = "" THEN parseFrom(parts, index + 1, acc)
    ELSE parsePhrase(parts, index, acc, isExclude, base,
             IF next # "" THEN normalizeToken(base \o "_" \o next) ELSE "")

parsePhrase(parts, index, acc, isExclude, base, phraseToken) ==
    IF phraseToken # "" /\ phraseToken \in PHRASE_SYNONYM_OVERRIDES
    THEN parseFrom(parts, index + 2,
             addTerm(acc, isExclude, termGroup(base, phraseToken, TRUE), phraseToken))
    ELSE parseFrom(parts, index + 1,
             addTerm(acc, isExclude, termGroup(base, phraseToken, FALSE), base))

\* the loop over the non-empty parts
parseParts(parts) ==
    IF parts = <<>> THEN emptyParseResult ELSE parseFrom(parts, 1, emptyParseResult)

parseQuery(q) == parseParts(filterNonEmpty(split(trim(q), WhitespaceChars, TRUE)))

(***************************************************************************)
(* Product records.  id, name and brand are strings ("" when absent: every *)
(* use is String(value || "")).  contains_grain is "true", "false" or      *)
(* "unknown".  The two fields the code calls methods on carry their        *)
(* JavaScript type: ingredients_list is [type, text] with text the string  *)
(* value (the decimal digits for a number, "" for undefined and null);     *)
(* protein_sources is [type, items, text] with items the array elements    *)
(* and text the value of a string put where the array belongs.             *)
(***************************************************************************)
StringValue(s) == [type |-> "string", text |-> s]

ArrayValue(items) == [type |-> "array", items |-> items, text |-> ""]

\* String(value || "") of an ingredients_list value
ingredientsText(value) ==
    IF value.type = "string" \/ (value.type = "number" /\ value.text # "0")
    THEN value.text
    ELSE ""

(***************************************************************************)
(* Tokenisation of a product                                               *)
(***************************************************************************)
RECURSIVE mapNormalize(_)
mapNormalize(seq) ==
    IF seq = <<>> THEN <<>> ELSE <<normalizeToken(Head(seq))>> \o mapNormalize(Tail(seq))

RECURSIVE mapTrim(_)
mapTrim(seq) == IF seq = <<>> THEN <<>> ELSE <<trim(Head(seq))>> \o mapTrim(Tail(seq))

\* normalized.indexOf("_"), 0-based, -1 when there is none
indexOfUnderscore(normalized) ==
    IF \E i \in 1..Len(normalized) : Char(normalized, i) = "_"
    THEN (CHOOSE i \in 1..Len(normalized) :
             /\ Char(normalized, i) = "_"
             /\ \A j \in 1..(i - 1) : Char(normalized, j) # "_") - 1
    ELSE -1

\* the tokens of a normalised slug: the slug and its first component
slugTokens(normalized, idx) ==
    IF normalized = "" THEN {}
    ELSE IF idx > 0 THEN {normalized, SubSeq(normalized, 1, idx)}
    ELSE {normalized}

\* the tokens explodeSlug adds for the normalised slug
explodeNormalized(normalized) == slugTokens(normalized, indexOfUnderscore(normalized))

explodeSlug(slug) == explodeNormalized(normalizeToken(slug))

tokensFromString(value) ==
    Range(filterNonEmpty(mapNormalize(split(value, WhitespaceChars \cup {"/", "_", "-"}, TRUE))))

\* productTokenSet raises a TypeError when ingredients_list has no split
\* method or protein_sources has no forEach method; the destructuring
\* defaults replace undefined only
productTokenSetThrows(product) ==
    \/ product.ingredients_list.type \notin {"string", "undefined"}
    \/ product.protein_sources.type \notin {"array", "undefined"}

\* the tokens added for contains_grain === true and === false
grainTokens(contains_grain) ==
    IF contains_grain = "true" THEN {"contains_grain", "grain", "grains", "with_grains"}
    ELSE IF contains_grain = "false" THEN {"grain_free", "no_grain", "no_grains", "grainfree"}
    ELSE {}

\* slugs.forEach((slug) => explodeSlug(slug).forEach(...))
explodeSlugs(slugs) == UNION {explodeSlug(slug) : slug \in Range(slugs)}

productTokenSet(product) ==
    tokensFromString(product.id) \cup tokensFromString(product.name)
    \cup tokensFromString(product.brand)
    \cup explodeSlugs(filterNonEmpty(mapTrim(
             split(product.ingredients_list.text, {";"}, FALSE))))
    \cup explodeSlugs(product.protein_sources.items)
    \cup grainTokens(product.contains_grain)
    \cup (IF Len(product.protein_sources.items) > 0
          THEN {"has_protein", "protein"} ELSE {"no_protein"})

hasToken(tokenSet, token) ==
    \/ token \in tokenSet
    \/ \E value \in tokenSet :
          value = token \/ startsWith(value, token \o "_") \/ startsWith(value, token)

\* the exclusion test of hasTokenExclude on the normalised token
excludesToken(tokenSet, token) ==
    IF token = "grain" \/ token = "grains"
    THEN \E value \in {"contains_grain", "grain", "grains", "with_grains"} : value \in tokenSet
    ELSE \E value \in tokenSet : value = token \/ startsWith(value, token \o "_")

hasTokenExclude(tokenSet, tok) == excludesToken(tokenSet, normalizeToken(tok))

\* (product.protein_sources || []).forEach raises when the value is a
\* non-empty string
ingredientTokensThrows(product) ==
    product.protein_sources.type = "string" /\ product.protein_sources.text # ""

ingredientTokens(product) ==
    filterNonEmpty(mapNormalize(filterNonEmpty(mapTrim(
        split(ingredientsText(product.ingredients_list), {";", ",", "\n"}, TRUE)))))
    \o filterNonEmpty(mapNormalize(product.protein_sources.items))

orderedIngredientTokens(product) ==
    filterNonEmpty(mapNormalize(filterNonEmpty(mapTrim(
        split(ingredientsText(product.ingredients_list), {";", ",", "\n"}, TRUE)))))
    \o filterNonEmpty(mapNormalize(product.protein_sources.items))

ingredientTokenMatches(token, ingredient) ==
    /\ token # ""
    /\ ingredient # ""
    /\ \/ ingredient = token
       \/ startsWith(ingredient, token \o "_")
       \/ startsWith(token, ingredient \o "_")
       \/ /\ "_" \notin CharsOf(token)
          /\ token \in Range(split(ingredient, {"_"}, FALSE))

\* ingredientIndex is 0-based; NoIndex stands for null.  ingredientScore
\* 1 - bestIndex / length is kept as the fraction scoreNum / scoreDen.
NoIndex == -1

\* the bestIndex the double loop of evaluateIngredientGroupScore ends with:
\* the first ingredient a token matches, NoIndex when there is none
firstMatchIn(hits) ==
    IF hits = {} THEN NoIndex ELSE (CHOOSE i \in hits : \A j \in hits : i <= j) - 1

bestIngredientIndex(tokens, orderedIngredients) ==
    firstMatchIn({i \in 1..Len(orderedIngredients) :
                     \E token \in tokens : ingredientTokenMatches(token, orderedIngredients[i])})

noIngredientMatch ==
    [ingredientMatched |-> FALSE, scoreNum |-> 0, scoreDen |-> 1, ingredientIndex |-> NoIndex]

\* mutation: the score is bestIndex / length, the "1 -" is missing
ingredientGroupScore_Inverted(bestIndex, length) ==
    IF length = 0 \/ bestIndex = NoIndex THEN noIngredientMatch
    ELSE [ingredientMatched |-> TRUE, scoreNum |-> bestIndex,
          scoreDen |-> length, ingredientIndex |-> bestIndex]

\* the value evaluateIngredientGroupScore returns for the best index
ingredientGroupScore(bestIndex, length) ==
    IF length = 0 \/ bestIndex = NoIndex THEN noIngredientMatch
    ELSE [ingredientMatched |-> TRUE, scoreNum |-> length - bestIndex,
          scoreDen |-> length, ingredientIndex |-> bestIndex]

evaluateIngredientGroupScore(tokens, orderedIngredients) ==
    ingredientGroupScore(bestIngredientIndex(tokens, orderedIngredients),
                         Len(orderedIngredients))

\* the count of countTokenMatches for the normalised token
countNormalized(tokenList, token) ==
    IF token = "" THEN 0
    ELSE Cardinality({i \in 1..Len(tokenList) :
            \/ tokenList[i] = token
            \/ /\ "_" \notin CharsOf(token)
               /\ token \in Range(split(tokenList[i], {"_"}, FALSE))})

countTokenMatches(tokenList, rawToken) == countNormalized(tokenList, normalizeToken(rawToken))

maxOf(S) == IF S = {} THEN 0 ELSE CHOOSE x \in S : \A y \in S : y <= x

\* mutation: the percentage is truncated, not rounded
roundPercent_Floor(num, den) == (100 * num) \div den

\* Math.round(num / den * 100) for num >= 0, den > 0: halves round up
roundPercent(num, den) == (200 * num + den) \div (2 * den)

TypeError == [threw |-> "TypeError"]

hidden(matchedGroups, neededGroups) ==
    [match |-> 0, sortScore |-> 0, matchedGroups |-> matchedGroups,
     neededGroups |-> neededGroups, show |-> FALSE]

\* mutation: the veto needs every exclude token to match
excludeVeto_Every(tokens, excludes) ==
    excludes # {} /\ \A ex \in excludes : hasTokenExclude(tokens, ex)

\* mutation: excludes are matched with the permissive include matcher
excludeVeto_Permissive(tokens, excludes) ==
    \E ex \in excludes : hasToken(tokens, normalizeToken(ex))

\* the for (const ex of excludes) loop of computeMatch
excludeVeto(tokens, excludes) == \E ex \in excludes : hasTokenExclude(tokens, ex)

\* requirement of a group: "with", "without" or null
groupRequirement(normalizedGroupTokens) ==
    IF normalizedGroupTokens \cap GRAIN_WITH_TOKENS # {} THEN "with"
    ELSE IF normalizedGroupTokens \cap GRAIN_FREE_TOKENS # {} THEN "without"
    ELSE "null"

\* the record the map callback returns for one group
groupEvaluation(normalizedGroupTokens, tokens, ingredientData) ==
    [matched |-> \E token \in normalizedGroupTokens : hasToken(tokens, token),
     requirement |-> groupRequirement(normalizedGroupTokens),
     ingredientMatched |-> ingredientData.ingredientMatched,
     scoreNum |-> ingredientData.scoreNum,
     scoreDen |-> ingredientData.scoreDen,
     ingredientIndex |-> ingredientData.ingredientIndex]

evaluateGroup(normalizedGroupTokens, tokens, orderedIngredients) ==
    groupEvaluation(normalizedGroupTokens, tokens,
        evaluateIngredientGroupScore(normalizedGroupTokens, orderedIngredients))

\* includeGroups.map((group) => ...) of computeMatch
RECURSIVE evaluateGroups(_, _, _)
evaluateGroups(includeGroups, tokens, orderedIngredients) ==
    IF includeGroups = <<>> THEN <<>>
    ELSE <<evaluateGroup({normalizeToken(t) : t \in Head(includeGroups)} \ {""},
                         tokens, orderedIngredients)>>
         \o evaluateGroups(Tail(includeGroups), tokens, orderedIngredients)

\* the frequencyScore reduce of computeMatch
RECURSIVE sumGroupCounts(_, _)
sumGroupCounts(includeGroups, frequencyTokens) ==
    IF includeGroups = <<>> THEN 0
    ELSE maxOf({countTokenMatches(frequencyTokens, token) : token \in Head(includeGroups)})
         + sumGroupCounts(Tail(includeGroups), frequencyTokens)

\* the share of totalScore one group contributes, over the denominator scoreDen
groupScore(evaluation, scoreDen) ==
    IF ~evaluation.matched THEN 0
    ELSE IF evaluation.ingredientMatched THEN evaluation.scoreNum
    ELSE scoreDen

\* the share of ingredientRankBoost one group contributes
groupBoost(evaluation, length) ==
    IF evaluation.ingredientMatched THEN length - evaluation.ingredientIndex ELSE 0

RECURSIVE sumGroupScores(_, _)
sumGroupScores(groupEvaluations, scoreDen) ==
    IF groupEvaluations = <<>> THEN 0
    ELSE groupScore(Head(groupEvaluations), scoreDen)
         + sumGroupScores(Tail(groupEvaluations), scoreDen)

RECURSIVE sumGroupBoosts(_, _)
sumGroupBoosts(groupEvaluations, length) ==
    IF groupEvaluations = <<>> THEN 0
    ELSE groupBoost(Head(groupEvaluations), length)
         + sumGroupBoosts(Tail(groupEvaluations), length)

\* a grain requirement of the query that no matched group satisfies
unmetRequirement(groupEvaluations, requirement) ==
    /\ \E g \in 1..Len(groupEvaluations) : groupEvaluations[g].requirement = requirement
    /\ ~\E g \in 1..Len(groupEvaluations) :
           groupEvaluations[g].requirement = requirement /\ groupEvaluations[g].matched

\* the result of a product that is shown
shownResult(match, ingredientRankBoost, frequencyScore, matchedGroups, neededGroups) ==
    [match |-> match,
     sortScore |-> match * 1000 + ingredientRankBoost * 10 + frequencyScore,
     matchedGroups |-> matchedGroups, neededGroups |-> neededGroups, show |-> TRUE]

\* the number of evaluations with matched set
countMatched(groupEvaluations) ==
    Cardinality({g \in 1..Len(groupEvaluations) : groupEvaluations[g].matched})

\* computeMatch from the group evaluations on: the gates, then the scores.
\* totalScore is kept as a numerator over scoreDen, the number of ordered
\* ingredients (1 when there are none)
matchOfGroups(groupEvaluations, matchedGroups, neededGroups, length, frequencyScore) ==
    IF neededGroups > 0 /\ matchedGroups = 0 THEN hidden(matchedGroups, neededGroups)
    ELSE IF \/ unmetRequirement(groupEvaluations, "with")
            \/ unmetRequirement(groupEvaluations, "without")
    THEN hidden(matchedGroups, neededGroups)
    ELSE shownResult(
             IF neededGroups = 0 THEN 0
             ELSE roundPercent(
                      sumGroupScores(groupEvaluations, IF length = 0 THEN 1 ELSE length),
                      (IF length = 0 THEN 1 ELSE length) * neededGroups),
             sumGroupBoosts(groupEvaluations, length),
             frequencyScore, matchedGroups, neededGroups)

\* the group evaluations with their count of matched groups
matchOfEvaluations(groupEvaluations, neededGroups, length, frequencyScore) ==
    matchOfGroups(groupEvaluations, countMatched(groupEvaluations), neededGroups, length,
                  frequencyScore)

\* computeMatch from the three token collections on
matchOfTokens(tokens, frequencyTokens, orderedIngredients, includeGroups, excludes) ==
    IF excludeVeto(tokens, excludes) THEN hidden(0, Len(includeGroups))
    ELSE matchOfEvaluations(evaluateGroups(includeGroups, tokens, orderedIngredients),
             Len(includeGroups), Len(orderedIngredients),
             sumGroupCounts(includeGroups, frequencyTokens))

computeMatch(product, includeGroups, excludes) ==
    IF productTokenSetThrows(product) \/ ingredientTokensThrows(product) THEN TypeError
    ELSE matchOfTokens(productTokenSet(product), ingredientTokens(product),
             orderedIngredientTokens(product), includeGroups, excludes)

(***************************************************************************)
(* Protein purity classifier                                               *)
(***************************************************************************)
PROTEIN_DESCRIPTOR_PREFIXES ==
    <<"deboned_", "roasted_", "smoke_flavored_", "freeze_dried_", "air_dried_",
      "oven_baked_", "wild_caught_", "farm_raised_", "free_range_", "cage_free_",
      "real_", "fresh_", "raw_", "ground_", "dried_">>

PROTEIN_SUFFIX_FORMS ==
    <<[suffix |-> "_meal", form |-> "meal"], [suffix |-> "_meals", form |-> "meal"],
      [suffix |-> "_fat", form |-> "fat"], [suffix |-> "_oil", form |-> "fat"],
      [suffix |-> "_tallow", form |-> "fat"], [suffix |-> "_grease", form |-> "fat"],
      [suffix |-> "_product", form |-> "other"], [suffix |-> "_products", form |-> "other"],
      [suffix |-> "_liver", form |-> "other"], [suffix |-> "_heart", form |-> "other"],
      [suffix |-> "_kidney", form |-> "other"], [suffix |-> "_lung", form |-> "other"],
      [suffix |-> "_tripe", form |-> "other"], [suffix |-> "_giblets", form |-> "other"],
      [suffix |-> "_plasma", form |-> "other"], [suffix |-> "_egg", form |-> "other"],
      [suffix |-> "_eggs", form |-> "other"], [suffix |-> "_whites", form |-> "other"],
      [suffix |-> "_breast", form |-> "other"], [suffix |-> "_and_bone", form |-> "other"]>>

\* index of the first descriptor prefix, from position i on, that name starts
\* with; 0 when there is none
RECURSIVE firstPrefix(_, _)
firstPrefix(name, i) ==
    IF i > Len(PROTEIN_DESCRIPTOR_PREFIXES) THEN 0
    ELSE IF startsWith(name, PROTEIN_DESCRIPTOR_PREFIXES[i]) THEN i
    ELSE firstPrefix(name, i + 1)

\* one round of the while loop of stripProteinPrefix: hit is the prefix
\* found, 0 when the loop ends
RECURSIVE stripProteinPrefix(_)
RECURSIVE stripPrefixAt(_, _)
stripPrefixAt(name, hit) ==
    IF hit = 0 THEN name
    ELSE stripProteinPrefix(SubSeq(name, Len(PROTEIN_DESCRIPTOR_PREFIXES[hit]) + 1, Len(name)))

stripProteinPrefix(name) == stripPrefixAt(name, firstPrefix(name, 1))

\* index of the first suffix form, from position i on, that name ends with;
\* 0 when there is none
RECURSIVE firstSuffix(_, _)
firstSuffix(name, i) ==
    IF i > Len(PROTEIN_SUFFIX_FORMS) THEN 0
    ELSE IF endsWith(name, PROTEIN_SUFFIX_FORMS[i].suffix) THEN i
    ELSE firstSuffix(name, i + 1)

\* /_(and|with|plus)_/.test(s)
hasMixedInfix(s) ==
    \E infix \in {"_and_", "_with_", "_plus_"} :
        \E i \in 1..Len(s) : startsWith(SubSeq(s, i, Len(s)), infix)

NoParse == [base |-> "", form |-> "null", mixed |-> FALSE]

\* the value parseProteinSource returns for a base and the suffix found
parsedSource(base, hit) ==
    [base |-> base,
     form |-> IF hit = 0 THEN "pure" ELSE PROTEIN_SUFFIX_FORMS[hit].form,
     mixed |-> hasMixedInfix(base)]

\* base = cut || norm
baseOrNorm(norm, cut, hit) == parsedSource(IF cut = "" THEN norm ELSE cut, hit)

\* the suffix found is cut from the stripped name
parseSuffix(norm, stripped, hit) ==
    baseOrNorm(norm,
        IF hit = 0 THEN stripped
        ELSE SubSeq(stripped, 1, Len(stripped) - Len(PROTEIN_SUFFIX_FORMS[hit].suffix)),
        hit)

parseStripped(norm, stripped) == parseSuffix(norm, stripped, firstSuffix(stripped, 1))

parseNormalized(norm) ==
    IF norm = "" THEN NoParse ELSE parseStripped(norm, stripProteinPrefix(norm))

parseProteinSource(rawSource) == parseNormalized(normalizeToken(rawSource))

\* .filter(Boolean) on one parsed source
keepParsed(item) == IF item = NoParse THEN <<>> ELSE <<item>>

\* (proteinSources || []).map(parseProteinSource).filter(Boolean)
RECURSIVE parseSources(_)
parseSources(proteinSources) ==
    IF proteinSources = <<>> THEN <<>>
    ELSE keepParsed(parseProteinSource(Head(proteinSources)))
         \o parseSources(Tail(proteinSources))

\* the entries of the byBase Map: keys in insertion order
RECURSIVE basesInOrder(_, _)
basesInOrder(items, seen) ==
    IF items = <<>> THEN <<>>
    ELSE IF Head(items).base \in seen THEN basesInOrder(Tail(items), seen)
    ELSE <<Head(items).base>> \o basesInOrder(Tail(items), seen \cup {Head(items).base})

\* Array.prototype.sort is stable: each element is inserted after the
\* elements that do not compare greater than it.  before[<<a, b>>] is the
\* comparator returning a negative number for (a, b).
RECURSIVE sortInsert(_, _, _)
sortInsert(sorted, x, before) ==
    IF sorted = <<>> THEN <<x>>
    ELSE IF before[<<x, Head(sorted)>>] THEN <<x>> \o sorted
    ELSE <<Head(sorted)>> \o sortInsert(Tail(sorted), x, before)

RECURSIVE stableSort(_, _)
stableSort(seq, before) ==
    IF seq = <<>> THEN <<>>
    ELSE sortInsert(stableSort(SubSeq(seq, 1, Len(seq) - 1), before), seq[Len(seq)], before)

\* mutation: the pure-or-meal rule is tested before the only-pure rule
classifyPurity_MealFirst(anyMixed, otherBaseExists, otherBaseHasNonFat, primaryForms) ==
    LET primaryOnlyPure == primaryForms = {"pure"}
        primaryOnlyPureOrMeal == \A f \in primaryForms : f = "pure" \/ f = "meal"
        primaryHasFat == "fat" \in primaryForms
        primaryHasOther == "other" \in primaryForms
    IN  IF anyMixed \/ otherBaseHasNonFat THEN [percent |-> 75, tier |-> "mixed"]
        ELSE IF ~otherBaseExists /\ primaryOnlyPureOrMeal /\ ~primaryHasFat /\ ~primaryHasOther
             THEN [percent |-> 93, tier |-> "meal"]
        ELSE IF ~otherBaseExists /\ primaryOnlyPure THEN [percent |-> 100, tier |-> "pure"]
        ELSE IF \/ ~otherBaseExists /\ (primaryHasFat \/ primaryHasOther)
                \/ otherBaseExists /\ ~otherBaseHasNonFat
             THEN [percent |-> 85, tier |-> "fat"]
        ELSE [percent |-> 75, tier |-> "mixed"]

\* the ordered if statements that end evaluateProteinPurity
classifyPurity(anyMixed, otherBaseExists, otherBaseHasNonFat, primaryForms) ==
    LET primaryOnlyPure == primaryForms = {"pure"}
        primaryOnlyPureOrMeal == \A f \in primaryForms : f = "pure" \/ f = "meal"
        primaryHasFat == "fat" \in primaryForms
        primaryHasOther == "other" \in primaryForms
    IN  IF anyMixed \/ otherBaseHasNonFat THEN [percent |-> 75, tier |-> "mixed"]
        ELSE IF ~otherBaseExists /\ primaryOnlyPure THEN [percent |-> 100, tier |-> "pure"]
        ELSE IF ~otherBaseExists /\ primaryOnlyPureOrMeal /\ ~primaryHasFat /\ ~primaryHasOther
             THEN [percent |-> 93, tier |-> "meal"]
        ELSE IF \/ ~otherBaseExists /\ (primaryHasFat \/ primaryHasOther)
                \/ otherBaseExists /\ ~otherBaseHasNonFat
             THEN [percent |-> 85, tier |-> "fat"]
        ELSE [percent |-> 75, tier |-> "mixed"]

\* byBase.get(b).count
countOf(items, b) == Cardinality({i \in 1..Len(items) : items[i].base = b})

\* byBase.get(b).forms
formsOf(items, b) == {items[i].form : i \in {j \in 1..Len(items) : items[j].base = b}}

\* the comparator (a, b) => b[1].count - a[1].count, as the pairs it orders
countDescending(items, bases) ==
    [pair \in bases \X bases |-> countOf(items, pair[1]) > countOf(items, pair[2])]

\* entries.sort(...): the bases by descending count
sortedEntries(items, bases) == stableSort(bases, countDescending(items, Range(bases)))

\* the decision on the sorted entries
purityOfEntries(items, entries) ==
    classifyPurity(\E i \in 1..Len(items) : items[i].mixed,
                   Tail(entries) # <<>>,
                   \E b \in Range(Tail(entries)) : \E f \in formsOf(items, b) : f # "fat",
                   formsOf(items, entries[1]))

purityOfItems(items) ==
    IF items = <<>> THEN [percent |-> 0, tier |-> "none"]
    ELSE purityOfEntries(items, sortedEntries(items, basesInOrder(items, {})))

evaluateProteinPurity(proteinSources) == purityOfItems(parseSources(proteinSources))

MaxCards == 6

(***************************************************************************)
(* Rendering                                                               *)
(***************************************************************************)
\* String.prototype.localeCompare for names of ASCII letters, digits and
\* spaces: the strings are compared letter by letter without regard to case
\* (space before digits before letters, a prefix before its extensions), and
\* strings equal up to case by their first case difference, lower case first
CollationOrder == " 0123456789abcdefghijklmnopqrstuvwxyz"

CollationChars == CharsOf(CollationOrder)

collationRank(c) ==
    IF c \in CollationChars
    THEN CHOOSE i \in 1..Len(CollationOrder) : Char(CollationOrder, i) = c
    ELSE 0

RECURSIVE compareRanks(_, _)
compareRanks(a, b) ==
    IF a = "" /\ b = "" THEN 0
    ELSE IF a = "" THEN -1
    ELSE IF b = "" THEN 1
    ELSE IF collationRank(Char(a, 1)) < collationRank(Char(b, 1)) THEN -1
    ELSE IF collationRank(Char(a, 1)) > collationRank(Char(b, 1)) THEN 1
    ELSE compareRanks(Rest(a), Rest(b))

RECURSIVE compareCase(_, _)
compareCase(a, b) ==
    IF a = "" \/ b = "" THEN 0
    ELSE IF Char(a, 1) = Char(b, 1) THEN compareCase(Rest(a), Rest(b))
    ELSE IF Char(a, 1) \in UpperChars THEN 1 ELSE -1

\* the case decides between strings that are equal without regard to case
compareWithCase(primary, a, b) == IF primary # 0 THEN primary ELSE compareCase(a, b)

localeCompare(a, b) == compareWithCase(compareRanks(toLowerCase(a), toLowerCase(b)), a, b)

\* mutation: the scores are compared in ascending order
compareMatches_Ascending(a, b) ==
    IF a.result.sortScore - b.result.sortScore # 0
    THEN a.result.sortScore - b.result.sortScore
    ELSE localeCompare(a.product.name, b.product.name)

\* the comparator handed to sort in render
compareMatches(a, b) ==
    IF b.result.sortScore - a.result.sortScore # 0
    THEN b.result.sortScore - a.result.sortScore
    ELSE localeCompare(a.product.name, b.product.name)

RECURSIVE mapComputeMatch(_, _, _)
mapComputeMatch(catalog, includeGroups, excludes) ==
    IF catalog = <<>> THEN <<>>
    ELSE <<[product |-> Head(catalog),
            result |-> computeMatch(Head(catalog), includeGroups, excludes)]>>
         \o mapComputeMatch(Tail(catalog), includeGroups, excludes)

RECURSIVE selectSeq(_, _)
selectSeq(seq, keep) ==
    IF seq = <<>> THEN <<>>
    ELSE (IF Head(seq) \in keep THEN <<Head(seq)>> ELSE <<>>) \o selectSeq(Tail(seq), keep)

\* the comparator of the sort in render, as the pairs it orders
matchesBefore(entries) ==
    [pair \in entries \X entries |-> compareMatches(pair[1], pair[2]) < 0]

\* .filter(({ result }) => result.show !== false)
shownMatches(evaluated) ==
    selectSeq(evaluated, {e \in Range(evaluated) : e.result.show # FALSE})

\* .sort(...)
sortMatches(shown) == stableSort(shown, matchesBefore(Range(shown)))

\* mutation: the removed products are not filtered out
visibleOf_Unfiltered(matches, removed) == matches

\* .filter(({ product }) => !removed.has(product.id))
visibleOf(matches, removed) ==
    selectSeq(matches, {e \in Range(matches) : e.product.id \notin removed})

\* .slice(0, 6)
limitCards(visibleMatches) ==
    SubSeq(visibleMatches, 1,
           IF Len(visibleMatches) < MaxCards THEN Len(visibleMatches) ELSE MaxCards)

\* render from the mapped results on.  A TypeError raised by computeMatch
\* leaves render after the container was emptied.
renderMatches(evaluated, removed) ==
    IF \E e \in Range(evaluated) : e.result = TypeError THEN <<>>
    ELSE limitCards(visibleOf(sortMatches(shownMatches(evaluated)), removed))

\* the cards render leaves in the container
render(catalog, includeGroups, excludes, removed) ==
    IF Len(includeGroups) = 0 /\ Cardinality(excludes) = 0 THEN <<>>
    ELSE renderMatches(mapComputeMatch(catalog, includeGroups, excludes), removed)

(***************************************************************************)
(* Bounded inputs                                                          *)
(***************************************************************************)
NormAlphabet == {"a", "Z", "7", "_", " ", "-"}

RECURSIVE StringsOfLen(_, _)
StringsOfLen(alphabet, n) ==
    IF n = 0 THEN {""}
    ELSE {s \o c : s \in StringsOfLen(alphabet, n - 1), c \in alphabet}

StringsUpTo(alphabet, n) == UNION {StringsOfLen(alphabet, k) : k \in 0..n}

SeqsUpTo(S, n) == UNION {[1..k -> S] : k \in 0..n}

RECURSIVE joinWith(_, _)
joinWith(seq, sep) ==
    IF seq = <<>> THEN ""
    ELSE IF Len(seq) = 1 THEN seq[1]
    ELSE seq[1] \o sep \o joinWith(Tail(seq), sep)

SourceVocabulary ==
    {"chicken", "chicken_meal", "chicken_fat", "chicken_and_rice", "Deboned Chicken",
     "salmon_oil", "beef_liver", ""}

MkProduct(id, name, grain, protein, ingredients) ==
    [id |-> id, name |-> name, brand |-> "Acme", contains_grain |-> grain,
     protein_sources |-> protein, ingredients_list |-> ingredients]

IngredientVocabulary == {"chicken", "peas", "chicken_meal", "grain_free_kibble"}

IngredientLists ==
    {StringValue(joinWith(l, ";")) : l \in SeqsUpTo(IngredientVocabulary, MaxIngredients)}
    \cup {StringValue("chicken;peas;chicken_meal"), StringValue("Chicken Meal, peas\nchicken")}

WellFormedProducts ==
    {MkProduct("p1", name, grain, ArrayValue(protein), ingredients) :
        name \in {"Chicken Recipe", "Grain Free Beef"},
        grain \in {"true", "false", "unknown"},
        protein \in {<<>>, <<"chicken">>},
        ingredients \in IngredientLists}

\* records with an absent, null or wrongly typed field
MalformedProducts ==
    {MkProduct("p1", "Chicken Recipe", "false", ArrayValue(<<"chicken">>), ingredients) :
        ingredients \in {[type |-> "undefined", text |-> ""], [type |-> "null", text |-> ""],
                         [type |-> "number", text |-> "5"]}}
    \cup
    {MkProduct("p1", "Chicken Recipe", "false", protein, StringValue("chicken;peas")) :
        protein \in {[type |-> "undefined", items |-> <<>>, text |-> ""],
                     [type |-> "null", items |-> <<>>, text |-> ""],
                     [type |-> "string", items |-> <<>>, text |-> "chicken"]}}

MatchProducts == WellFormedProducts \cup MalformedProducts

MatchQueries ==
    {"", "chicken", "grain", "-grain", "-chicken", "grain free chicken", "grain chicken",
     "chicken -peas", "peas  Chicken", "with grains", "beef -grain", "Grain-Free"}

PairProducts ==
    {MkProduct("p1", "Recipe", grain, ArrayValue(<<>>), StringValue(joinWith(l, ";"))) :
        grain \in {"false", "unknown"},
        l \in SeqsUpTo({"chicken", "peas", "chicken_meal"}, MaxPairIngredients)}

PairQueries == {"chicken", "chicken -peas", "chicken -pea", "grain free chicken"}

(***************************************************************************)
(* Values of the variables a specification does not use                    *)
(***************************************************************************)
NoProduct == MkProduct("", "", "unknown", ArrayValue(<<>>), StringValue(""))

NoResult == [pending |-> TRUE]

NoPurity == [percent |-> -1, tier |-> "pending"]

IdleNorm == raw = "" /\ once = "" /\ twice = "" /\ variants = {}

IdlePurity == sources = <<>> /\ purity = NoPurity

IdleMatch ==
    /\ query = "" /\ parsed = emptyParseResult
    /\ prodA = NoProduct /\ resA = NoResult
    /\ prodB = NoProduct /\ resB = NoResult

IdlePage ==
    /\ products = <<>> /\ inputValue = "" /\ currentState = emptyParseResult
    /\ removedProductIds = {} /\ debouncePending = FALSE /\ cards = <<>>
    /\ clicked = {}

(***************************************************************************)
(* SpecNorm: normalizeToken applied once and then to its own output        *)
(***************************************************************************)
InitNorm ==
    /\ pc = "norm_start"
    /\ raw \in StringsUpTo(NormAlphabet, MaxStrLen)
    /\ once = ""
    /\ twice = ""
    /\ variants = {}
    /\ IdlePurity /\ IdleMatch /\ IdlePage

NormalizeOnce ==
    /\ pc = "norm_start"
    /\ once' = normalizeToken(raw)
    /\ pc' = "norm_once"
    /\ UNCHANGED <<raw, twice, variants, purityVars, matchVars, pageVars>>

NormalizeTwice ==
    /\ pc = "norm_once"
    /\ twice' = normalizeToken(once)
    /\ pc' = "norm_twice"
    /\ UNCHANGED <<raw, once, variants, purityVars, matchVars, pageVars>>

NextNorm == NormalizeOnce \/ NormalizeTwice

SpecNorm == InitNorm /\ [][NextNorm]_vars

(***************************************************************************)
(* SpecPurity: evaluateProteinPurity applied to a list of sources          *)
(***************************************************************************)
InitPurity ==
    /\ pc = "purity_start"
    /\ sources \in SeqsUpTo(SourceVocabulary, MaxSources)
    /\ purity = NoPurity
    /\ IdleNorm /\ IdleMatch /\ IdlePage

EvaluatePurity ==
    /\ pc = "purity_start"
    /\ purity' = evaluateProteinPurity(sources)
    /\ pc' = "purity_done"
    /\ UNCHANGED <<sources, normVars, matchVars, pageVars>>

NextPurity == EvaluatePurity

SpecPurity == InitPurity /\ [][NextPurity]_vars

(***************************************************************************)
(* SpecMatch: parseQuery, then computeMatch on one product                 *)
(***************************************************************************)
InitMatch ==
    /\ pc = "match_start"
    /\ query \in MatchQueries
    /\ prodA \in MatchProducts
    /\ parsed = emptyParseResult
    /\ resA = NoResult /\ prodB = NoProduct /\ resB = NoResult
    /\ IdleNorm /\ IdlePurity /\ IdlePage

ParseQuery ==
    /\ pc \in {"match_start", "pair_start"}
    /\ parsed' = parseQuery(query)
    /\ pc' = IF pc = "match_start" THEN "match_parsed" ELSE "pair_parsed"
    /\ UNCHANGED <<query, prodA, resA, prodB, resB, normVars, purityVars, pageVars>>

ComputeMatchA ==
    /\ pc \in {"match_parsed", "pair_parsed"}
    /\ resA' = computeMatch(prodA, parsed.includeGroups, parsed.excludes)
    /\ pc' = IF pc = "match_parsed" THEN "match_done" ELSE "pair_a"
    /\ UNCHANGED <<query, parsed, prodA, prodB, resB, normVars, purityVars, pageVars>>

NextMatch == ParseQuery \/ ComputeMatchA

SpecMatch == InitMatch /\ [][NextMatch]_vars

(***************************************************************************)
(* SpecPair: computeMatch on two products under the same query             *)
(***************************************************************************)
InitPair ==
    /\ pc = "pair_start"
    /\ query \in PairQueries
    /\ prodA \in PairProducts
    /\ prodB \in {p \in PairProducts : p.contains_grain = "false"}
    /\ parsed = emptyParseResult
    /\ resA = NoResult /\ resB = NoResult
    /\ IdleNorm /\ IdlePurity /\ IdlePage

ComputeMatchB ==
    /\ pc = "pair_a"
    /\ resB' = computeMatch(prodB, parsed.includeGroups, parsed.excludes)
    /\ pc' = "pair_done"
    /\ UNCHANGED <<query, parsed, prodA, resA, prodB, normVars, purityVars, pageVars>>

NextPair == ParseQuery \/ ComputeMatchA \/ ComputeMatchB

SpecPair == InitPair /\ [][NextPair]_vars

(***************************************************************************)
(* Spec: the page after init has loaded the catalog                        *)
(***************************************************************************)
PagePool ==
    <<MkProduct("a1", "apple", "false", ArrayValue(<<>>), StringValue("chicken;peas")),
      MkProduct("a2", "Banana", "false", ArrayValue(<<>>), StringValue("chicken;peas")),
      MkProduct("a3", "cherry", "true", ArrayValue(<<>>), StringValue("peas;chicken")),
      MkProduct("a4", "date", "unknown", ArrayValue(<<"chicken">>), StringValue("chicken")),
      MkProduct("a5", "elder", "false", ArrayValue(<<>>), StringValue("beef;chicken")),
      MkProduct("a6", "fig", "false", ArrayValue(<<>>), StringValue("chicken_meal;peas")),
      MkProduct("", "grape", "false", ArrayValue(<<>>), StringValue("peas;chicken_meal")),
      MkProduct("a8", "apple", "false", ArrayValue(<<>>), StringValue("chicken;peas"))>>

Reverse(seq) == [i \in 1..Len(seq) |-> seq[Len(seq) + 1 - i]]

Catalogs == {PagePool, Reverse(PagePool)}

PageQueries == {"chicken", "chicken -peas", "grain free"}

Init ==
    /\ pc = "page"
    /\ products \in Catalogs
    /\ inputValue = ""
    /\ currentState = emptyParseResult
    /\ removedProductIds = {}
    /\ debouncePending = FALSE
    /\ cards = render(products, <<>>, {}, {})
    /\ clicked = {}
    /\ IdleNorm /\ IdlePurity /\ IdleMatch

\* the input event: the query box changes and the debounce timer restarts
InputEvent(value) ==
    /\ inputValue' = value
    /\ debouncePending' = TRUE
    /\ UNCHANGED <<pc, products, currentState, removedProductIds, cards, clicked,
                   normVars, purityVars, matchVars>>

\* runSearch followed by renderWithCurrentState
runSearch ==
    /\ currentState' = parseQuery(inputValue)
    /\ cards' = render(products, currentState'.includeGroups, currentState'.excludes,
                       removedProductIds)
    /\ UNCHANGED <<pc, products, inputValue, removedProductIds, clicked,
                   normVars, purityVars, matchVars>>

DebounceFires ==
    /\ debouncePending
    /\ debouncePending' = FALSE
    /\ runSearch

FetchClick ==
    /\ runSearch
    /\ UNCHANGED debouncePending

\* the remove button of the i-th card
RemoveClick(i) ==
    /\ i \in 1..Len(cards)
    /\ Cardinality(removedProductIds) < MaxRemoved
    /\ cards[i].product.id # ""
    /\ removedProductIds' = removedProductIds \cup {cards[i].product.id}
    /\ cards' = render(products, currentState.includeGroups, currentState.excludes,
                       removedProductIds')
    /\ clicked' = clicked \cup {cards[i].product}
    /\ UNCHANGED <<pc, products, inputValue, currentState, debouncePending,
                   normVars, purityVars, matchVars>>

\* the remove button of a card whose product has no id: handleRemoveProduct
\* returns at once
RemoveClickNoId(i) ==
    /\ i \in 1..Len(cards)
    /\ cards[i].product.id = ""
    /\ clicked' = clicked \cup {cards[i].product}
    /\ UNCHANGED <<pc, products, inputValue, currentState, removedProductIds,
                   debouncePending, cards, normVars, purityVars, matchVars>>

ClearClick ==
    /\ inputValue' = ""
    /\ removedProductIds' = {}
    /\ currentState' = emptyParseResult
    /\ cards' = render(products, <<>>, {}, {})
    /\ clicked' = {}
    /\ UNCHANGED <<pc, products, debouncePending, normVars, purityVars, matchVars>>

Next ==
    \/ \E value \in PageQueries : InputEvent(value)
    \/ DebounceFires
    \/ FetchClick
    \/ \E i \in 1..MaxCards : RemoveClick(i)
    \/ \E i \in 1..MaxCards : RemoveClickNoId(i)
    \/ ClearClick

Spec == Init /\ [][Next]_vars

(***************************************************************************)
(* SpecPlural: simplePluralVariants applied to a token                     *)
(***************************************************************************)
MaxPluralLen == 4

PluralAlphabet == {"b", "e", "i", "o", "s"}

InitPlural ==
    /\ pc = "plural_start"
    /\ raw \in StringsUpTo(PluralAlphabet, MaxPluralLen)
    /\ once = ""
    /\ twice = ""
    /\ variants = {}
    /\ IdlePurity /\ IdleMatch /\ IdlePage

ExpandPlural ==
    /\ pc = "plural_start"
    /\ variants' = simplePluralVariants(raw)
    /\ pc' = "plural_done"
    /\ UNCHANGED <<raw, once, twice, purityVars, matchVars, pageVars>>

NextPlural == ExpandPlural

SpecPlural == InitPlural /\ [][NextPlural]_vars

(***************************************************************************)
(* SpecParse: parseQuery applied to a query of a few terms                 *)
(***************************************************************************)
MaxTerms == 3

QueryTerms == {"grain", "free", "-grain", "-free", "no", "with", "chicken", "-"}

ParseQueries == {joinWith(terms, " ") : terms \in SeqsUpTo(QueryTerms, MaxTerms)}

InitParse ==
    /\ pc = "parse_start"
    /\ query \in ParseQueries
    /\ parsed = emptyParseResult
    /\ prodA = NoProduct /\ resA = NoResult
    /\ prodB = NoProduct /\ resB = NoResult
    /\ IdleNorm /\ IdlePurity /\ IdlePage

ParseTerms ==
    /\ pc = "parse_start"
    /\ parsed' = parseQuery(query)
    /\ pc' = "parse_done"
    /\ UNCHANGED <<query, prodA, resA, prodB, resB, normVars, purityVars, pageVars>>

NextParse == ParseTerms

SpecParse == InitParse /\ [][NextParse]_vars

(***************************************************************************)
(* SpecScore: computeMatch on two products with long ingredient lists, for *)
(* the weights of sortScore                                                *)
(***************************************************************************)
MaxScoreIngredients == 13

RECURSIVE repeat(_, _)
repeat(x, n) == IF n = 0 THEN <<>> ELSE <<x>> \o repeat(x, n - 1)

\* products listing "ox" some times and then "pea" some times, at most
\* MaxScoreIngredients ingredients in all
ScoreProducts ==
    UNION {{MkProduct("s1", "Recipe", "unknown", ArrayValue(<<>>),
                StringValue(joinWith(repeat("ox", oxen) \o repeat("pea", peas), ";"))) :
              peas \in 0..(MaxScoreIngredients - oxen)} :
           oxen \in 1..MaxScoreIngredients}

ScoreQueries == {"ox"}

InitScore ==
    /\ pc = "score_start"
    /\ query \in ScoreQueries
    /\ prodA \in ScoreProducts
    /\ prodB \in ScoreProducts
    /\ parsed = emptyParseResult
    /\ resA = NoResult /\ resB = NoResult
    /\ IdleNorm /\ IdlePurity /\ IdlePage

ScoreQuery ==
    /\ pc = "score_start"
    /\ parsed' = parseQuery(query)
    /\ pc' = "score_parsed"
    /\ UNCHANGED <<query, prodA, resA, prodB, resB, normVars, purityVars, pageVars>>

ScoreMatchA ==
    /\ pc = "score_parsed"
    /\ resA' = computeMatch(prodA, parsed.includeGroups, parsed.excludes)
    /\ pc' = "score_a"
    /\ UNCHANGED <<query, parsed, prodA, prodB, resB, normVars, purityVars, pageVars>>

ScoreMatchB ==
    /\ pc = "score_a"
    /\ resB' = computeMatch(prodB, parsed.includeGroups, parsed.excludes)
    /\ pc' = "score_done"
    /\ UNCHANGED <<query, parsed, prodA, resA, prodB, normVars, purityVars, pageVars>>

NextScore == ScoreQuery \/ ScoreMatchA \/ ScoreMatchB

SpecScore == InitScore /\ [][NextScore]_vars

(***************************************************************************)
(* Claims                                                                  *)
(***************************************************************************)
\* a Token: only [a-z0-9_], no two adjacent underscores, no leading or
\* trailing underscore (the empty string included)
IsToken(s) ==
    /\ \A i \in 1..Len(s) : Char(s, i) \in TokenChars
    /\ \A i \in 1..(Len(s) - 1) : ~(Char(s, i) = "_" /\ Char(s, i + 1) = "_")
    /\ s # "" => (Char(s, 1) # "_" /\ Char(s, Len(s)) # "_")

\* C8: normalizeToken is idempotent and its output is always a Token
C8_NormalizeIdempotentToken ==
    /\ pc \in {"norm_once", "norm_twice"} => IsToken(once)
    /\ pc = "norm_twice" => twice = once

C8_Witness ==
    /\ pc = "norm_twice"
    /\ raw = " Z-a"
    /\ once = "z_a"
    /\ twice = "z_a"

IsMatchResult(res) == "show" \in DOMAIN res

\* the ingredients of ingredients_list, in order, normalised
listedIngredients(product) ==
    filterNonEmpty(mapNormalize(filterNonEmpty(mapTrim(
        split(product.ingredients_list.text, {";"}, FALSE)))))

\* C1: a product with contains_grain = false is hidden by every query with
\* the include unigram "grain"
C1_GrainGatingHides ==
    (/\ pc = "match_done"
     /\ IsMatchResult(resA)
     /\ prodA.contains_grain = "false"
     /\ "grain" \in parsed.labelIncludes)
    => resA.show = FALSE

\* C2: the query "-grain" never hides a product with contains_grain = false
C2_ExcludeGrainKeepsGrainFree ==
    (/\ pc = "match_done"
     /\ IsMatchResult(resA)
     /\ query = "-grain"
     /\ prodA.contains_grain = "false")
    => resA.show = TRUE

\* C3: when some exclude token satisfies hasTokenExclude, computeMatch returns
\* the hidden result with match, sortScore and matchedGroups 0 and
\* neededGroups the number of include groups, whatever the include groups
\* match; "-chicken" hides every product with a token chicken or chicken_*
C3_ExcludeVetoPrecedence ==
    (pc = "match_done" /\ IsMatchResult(resA)) =>
        /\ (\E ex \in parsed.excludes : hasTokenExclude(productTokenSet(prodA), ex))
           => resA = [match |-> 0, sortScore |-> 0, matchedGroups |-> 0,
                      neededGroups |-> Len(parsed.includeGroups), show |-> FALSE]
        /\ (/\ query = "-chicken"
            /\ \E value \in productTokenSet(prodA) :
                  value = "chicken" \/ startsWith(value, "chicken_"))
           => resA.show = FALSE

\* an include group matches the product and an exclude token vetoes it
C3_Witness ==
    /\ pc = "match_done"
    /\ query = "beef -grain"
    /\ prodA.name = "Grain Free Beef"
    /\ prodA.contains_grain = "true"
    /\ hasToken(productTokenSet(prodA), "beef")
    /\ resA.show = FALSE
    /\ resA.neededGroups = 1

\* C7 as stated: every product with contains_grain = false whose first
\* ingredient is chicken gets two groups, show, match 100 and 2 of 2 groups
\* under "grain free chicken"
FirstIngredientIsChicken(product) ==
    /\ product.ingredients_list.type = "string"
    /\ listedIngredients(product) # <<>>
    /\ listedIngredients(product)[1] = "chicken"

C7_PhraseQueryFullMatch ==
    (/\ pc = "match_done"
     /\ IsMatchResult(resA)
     /\ query = "grain free chicken"
     /\ prodA.contains_grain = "false"
     /\ FirstIngredientIsChicken(prodA))
    => /\ Len(parsed.includeGroups) = 2
       /\ resA.show = TRUE
       /\ resA.match = 100
       /\ resA.matchedGroups = 2
       /\ resA.neededGroups = 2

\* C7, amended: the same, for products none of whose ingredient or
\* protein-source tokens matches a token of the grain-free group
NoGrainFreeIngredient(product) ==
    \A i \in 1..Len(orderedIngredientTokens(product)) :
        \A token \in expandSynonyms("grain_free") :
            ~ingredientTokenMatches(token, orderedIngredientTokens(product)[i])

C7_PhraseQueryFullMatchAmended ==
    (/\ pc = "match_done"
     /\ IsMatchResult(resA)
     /\ query = "grain free chicken"
     /\ prodA.contains_grain = "false"
     /\ FirstIngredientIsChicken(prodA)
     /\ NoGrainFreeIngredient(prodA))
    => /\ Len(parsed.includeGroups) = 2
       /\ resA.show = TRUE
       /\ resA.match = 100
       /\ resA.matchedGroups = 2
       /\ resA.neededGroups = 2

C7_Witness ==
    /\ pc = "match_done"
    /\ query = "grain free chicken"
    /\ prodA = MkProduct("p1", "Chicken Recipe", "false", ArrayValue(<<"chicken">>),
                         StringValue("chicken;peas;chicken_meal"))
    /\ resA.show = TRUE
    /\ resA.match = 100

\* C9: computeMatch returns a MatchResult for every product record, also
\* when a field is absent, null or of the wrong type
C9_NeverRaises ==
    pc = "match_done" => IsMatchResult(resA)

\* C4 as stated: for a fixed query, a product whose token set contains the
\* other's has at least its matchedGroups
C4_MonotonicMatchedGroups ==
    (/\ pc = "pair_done"
     /\ productTokenSet(prodA) \subseteq productTokenSet(prodB))
    => resB.matchedGroups >= resA.matchedGroups

\* C4, amended: the same, when no exclude token of the query satisfies
\* hasTokenExclude against the larger token set
C4_MonotonicWithoutVeto ==
    (/\ pc = "pair_done"
     /\ productTokenSet(prodA) \subseteq productTokenSet(prodB)
     /\ ~\E ex \in parsed.excludes : hasTokenExclude(productTokenSet(prodB), ex))
    => resB.matchedGroups >= resA.matchedGroups

\* tokens were added, a token of the larger set is the prefix-extension of
\* an exclude token, and more groups match
C4_Witness ==
    /\ pc = "pair_done"
    /\ query = "chicken -pea"
    /\ productTokenSet(prodA) \subseteq productTokenSet(prodB)
    /\ "peas" \in productTokenSet(prodB) \ productTokenSet(prodA)
    /\ resA.matchedGroups = 0
    /\ resB.matchedGroups = 1

\* A lists chicken first, B lists it last, the other ingredients and every
\* other field are the same
ChickenFirstVersusLast(a, b) ==
    LET listA == listedIngredients(a)
        listB == listedIngredients(b)
    IN  /\ a # b
        /\ [a EXCEPT !.ingredients_list = b.ingredients_list] = b
        /\ Len(listA) >= 2
        /\ Len(listB) = Len(listA)
        /\ listA[1] = "chicken"
        /\ listB[Len(listB)] = "chicken"
        /\ Tail(listA) = SubSeq(listB, 1, Len(listB) - 1)

\* C5 as stated: under the query "chicken", A's sortScore exceeds B's
C5_ChickenFirstRanksHigher ==
    (/\ pc = "pair_done"
     /\ query = "chicken"
     /\ ChickenFirstVersusLast(prodA, prodB))
    => resA.sortScore > resB.sortScore

\* C5, amended: the same, when none of the other ingredients has chicken as
\* an underscore-delimited component
C5_ChickenFirstRanksHigherAmended ==
    (/\ pc = "pair_done"
     /\ query = "chicken"
     /\ ChickenFirstVersusLast(prodA, prodB)
     /\ \A i \in 2..Len(listedIngredients(prodA)) :
           "chicken" \notin Range(split(listedIngredients(prodA)[i], {"_"}, FALSE)))
    => resA.sortScore > resB.sortScore

C5_Witness ==
    /\ pc = "pair_done"
    /\ query = "chicken"
    /\ prodA.ingredients_list.text = "chicken;peas"
    /\ prodB.ingredients_list.text = "peas;chicken"
    /\ ChickenFirstVersusLast(prodA, prodB)
    /\ resA.sortScore = 100021
    /\ resB.sortScore = 50011

\* the bases of a list of parsed sources, their entry counts and forms
PurityBases(items) == {items[i].base : i \in 1..Len(items)}

PurityCount(items, b) == Cardinality({i \in 1..Len(items) : items[i].base = b})

PurityForms(items, b) == {items[i].form : i \in {j \in 1..Len(items) : items[j].base = b}}

\* the base with the most entries, the first encountered among equals
PurityPrimary(items) ==
    items[CHOOSE i \in 1..Len(items) :
        /\ \A b \in PurityBases(items) : PurityCount(items, b) <= PurityCount(items, items[i].base)
        /\ \A j \in 1..(i - 1) :
              PurityCount(items, items[j].base) < PurityCount(items, items[i].base)].base

\* C6: evaluateProteinPurity follows the ordered decision table: no source
\* gives {0, none}; a mixed entry or a non-primary base with a non-fat form
\* gives {75, mixed}; a single base that is only pure gives {100, pure}; a
\* single base within {pure, meal} gives {93, meal}; a single base with a fat
\* or other form, or extra bases with fat forms only, gives {85, fat}
C6_PurityDecisionTable ==
    pc = "purity_done" =>
        /\ sources = <<>> => purity = [percent |-> 0, tier |-> "none"]
        /\ LET items == parseSources(sources)
           IN  items # <<>> =>
               LET primary == PurityPrimary(items)
                   single == Cardinality(PurityBases(items)) = 1
                   forms == PurityForms(items, primary)
                   mixedCase ==
                       \/ \E i \in 1..Len(items) : items[i].mixed
                       \/ \E b \in PurityBases(items) \ {primary} :
                             PurityForms(items, b) # {"fat"}
               IN  /\ mixedCase => purity = [percent |-> 75, tier |-> "mixed"]
                   /\ (~mixedCase /\ single /\ forms = {"pure"})
                      => purity = [percent |-> 100, tier |-> "pure"]
                   /\ (~mixedCase /\ single /\ forms # {"pure"}
                           /\ forms \subseteq {"pure", "meal"})
                      => purity = [percent |-> 93, tier |-> "meal"]
                   /\ (~mixedCase /\ (~single \/ forms \cap {"fat", "other"} # {}))
                      => purity = [percent |-> 85, tier |-> "fat"]
        /\ sources = <<"chicken">> => purity = [percent |-> 100, tier |-> "pure"]
        /\ sources = <<"chicken_meal">> => purity = [percent |-> 93, tier |-> "meal"]
        /\ sources = <<"chicken_fat">> => purity = [percent |-> 85, tier |-> "fat"]
        /\ sources = <<"chicken_and_rice">> => purity = [percent |-> 75, tier |-> "mixed"]

\* an extra base that contributes a fat form only
C6_Witness ==
    /\ pc = "purity_done"
    /\ sources = <<"chicken", "Deboned Chicken", "salmon_oil">>
    /\ PurityPrimary(parseSources(sources)) = "chicken"
    /\ PurityBases(parseSources(sources)) = {"chicken", "salmon"}
    /\ purity = [percent |-> 85, tier |-> "fat"]

\* C10: for an active query the cards are products with show = true, in
\* descending sortScore order, equal scores in ascending name order
C10_CardsFilteredAndSorted ==
    (pc = "page" /\ (Len(currentState.includeGroups) # 0 \/ currentState.excludes # {})) =>
        /\ \A i \in 1..Len(cards) : cards[i].result.show = TRUE
        /\ \A i \in 1..(Len(cards) - 1) :
              \/ cards[i].result.sortScore > cards[i + 1].result.sortScore
              \/ /\ cards[i].result.sortScore = cards[i + 1].result.sortScore
                 /\ localeCompare(cards[i].product.name, cards[i + 1].product.name) <= 0

\* six cards with different scores, equal scores, and a name pair whose
\* order is decided by the comparison without regard to case
C10_Witness ==
    /\ pc = "page"
    /\ currentState.labelIncludes = {"chicken"}
    /\ Len(cards) = MaxCards
    /\ \E i \in 1..(Len(cards) - 1) :
          cards[i].result.sortScore > cards[i + 1].result.sortScore
    /\ \E i \in 1..(Len(cards) - 1) :
          /\ cards[i].result.sortScore = cards[i + 1].result.sortScore
          /\ cards[i].product.name = "apple"
          /\ cards[i + 1].product.name = "Banana"

\* C11: the cards do not depend on the order of the catalog: rendering the
\* same products in any other catalog order, under the same query state and
\* removed set, gives the same list of cards
C11_CatalogOrderIndependent ==
    pc = "page" =>
        \A other \in Catalogs :
            render(other, currentState.includeGroups, currentState.excludes,
                   removedProductIds) = cards

\* ingredientRankBoost and frequencyScore of computeMatch, which its result
\* carries only inside sortScore
rankBoostOf(product, includeGroups) ==
    sumGroupBoosts(evaluateGroups(includeGroups, productTokenSet(product),
                                  orderedIngredientTokens(product)),
                   Len(orderedIngredientTokens(product)))

frequencyOf(product, includeGroups) ==
    sumGroupCounts(includeGroups, ingredientTokens(product))

\* C12: sortScore orders two shown results by match first and by
\* ingredientRankBoost among equal matches: a strictly higher match gives a
\* strictly higher sortScore, and with equal match a strictly higher
\* ingredientRankBoost gives a strictly higher sortScore
C12_SortScoreComposite ==
    (pc = "score_done" /\ resA.show = TRUE /\ resB.show = TRUE) =>
        /\ resA.match > resB.match => resA.sortScore > resB.sortScore
        /\ (/\ resA.match = resB.match
            /\ rankBoostOf(prodA, parsed.includeGroups)
                 > rankBoostOf(prodB, parsed.includeGroups))
           => resA.sortScore > resB.sortScore

\* the token without its last n characters
WithoutLast(t, n) == SubSeq(t, 1, Len(t) - n)

\* C13 as stated: the variants contain the token; a token ending in "ies"
\* adds the token with "ies" replaced by "y", one ending in "oes" the token
\* without "oes", one ending in "es" the token without "es", one ending in
\* "s" the token without "s"
C13_PluralRules ==
    pc = "plural_done" =>
        /\ raw \in variants
        /\ endsWith(raw, "ies") => (WithoutLast(raw, 3) \o "y") \in variants
        /\ endsWith(raw, "oes") => WithoutLast(raw, 3) \in variants
        /\ endsWith(raw, "es") => WithoutLast(raw, 2) \in variants
        /\ endsWith(raw, "s") => WithoutLast(raw, 1) \in variants

\* C13, amended: the "oes" rule drops "es" only, as the "es" rule does, so
\* that the variants are exactly the token, the token with "ies" replaced
\* by "y" when it ends in "ies", the token without "es" when it ends in
\* "es", and the token without "s" when it ends in "s"; a token ending in
\* "oes" has three variants and the token without "oes" is not one of them
C13_PluralRulesAmended ==
    pc = "plural_done" =>
        /\ variants =
              {raw}
              \cup (IF endsWith(raw, "ies") THEN {WithoutLast(raw, 3) \o "y"} ELSE {})
              \cup (IF endsWith(raw, "es") THEN {WithoutLast(raw, 2)} ELSE {})
              \cup (IF endsWith(raw, "s") THEN {WithoutLast(raw, 1)} ELSE {})
        /\ endsWith(raw, "oes") =>
              /\ Cardinality(variants) = 3
              /\ WithoutLast(raw, 3) \notin variants

C13_Witness ==
    /\ pc = "plural_done"
    /\ raw = "boes"
    /\ variants = {"boes", "bo", "boe"}

\* the terms of a query whose terms are separated by single spaces
TermsOf(q) == IF q = "" THEN <<>> ELSE split(q, {" "}, FALSE)

IsExcluded(term) == startsWith(term, "-")

BaseOf(term) == normalizeToken(IF IsExcluded(term) THEN Rest(term) ELSE term)

\* the underscore-joined normalised phrase of the terms at i and i + 1
PhraseAt(terms, i) == normalizeToken(BaseOf(terms[i]) \o "_" \o BaseOf(terms[i + 1]))

\* the second term is not excluded and the phrase is in the override set
PhraseIsOverride(terms, i) ==
    /\ i + 1 <= Len(terms)
    /\ ~IsExcluded(terms[i + 1])
    /\ BaseOf(terms[i]) # "" /\ BaseOf(terms[i + 1]) # ""
    /\ PhraseAt(terms, i) \in PHRASE_SYNONYM_OVERRIDES

\* fusion as stated: both terms are non-excluded
FusesBothPlain(terms) ==
    [i \in 1..Len(terms) |-> ~IsExcluded(terms[i]) /\ PhraseIsOverride(terms, i)]

\* fusion, amended: the first term may be excluded
FusesNextPlain(terms) == [i \in 1..Len(terms) |-> PhraseIsOverride(terms, i)]

\* the logical terms of a query from term i on, for a fusion rule: where
\* each starts, whether it is a fused phrase, whether it is excluded, its
\* label and the synonyms it must bring
RECURSIVE LogicalTerms(_, _, _)
LogicalTerms(terms, i, fuses) ==
    IF i > Len(terms) THEN <<>>
    ELSE IF BaseOf(terms[i]) = "" THEN LogicalTerms(terms, i + 1, fuses)
    ELSE <<[fused |-> fuses[i],
            excluded |-> IsExcluded(terms[i]),
            word |-> BaseOf(terms[i]),
            label |-> IF fuses[i] THEN PhraseAt(terms, i) ELSE BaseOf(terms[i])]>>
         \o LogicalTerms(terms, IF fuses[i] THEN i + 2 ELSE i + 1, fuses)

RECURSIVE IncludedTerms(_)
IncludedTerms(logical) ==
    IF logical = <<>> THEN <<>>
    ELSE (IF Head(logical).excluded THEN <<>> ELSE <<Head(logical)>>)
         \o IncludedTerms(Tail(logical))

\* a group is the group of a logical term: exactly the synonyms of the phrase
\* and none of the first word's for a fused term, else at least the
\* synonyms of the word
GroupOfTerm(group, term) ==
    IF term.fused
    THEN group = expandSynonyms(term.label) /\ group \cap expandSynonyms(term.word) = {}
    ELSE expandSynonyms(term.word) \subseteq group

\* the parse result has one include group per non-excluded logical term, in
\* encounter order, the tokens of the excluded ones in excludes, and their
\* labels
ParsedAs(result, logical) ==
    /\ Len(result.includeGroups) = Len(IncludedTerms(logical))
    /\ \A k \in 1..Len(result.includeGroups) :
          k <= Len(IncludedTerms(logical))
          => GroupOfTerm(result.includeGroups[k], IncludedTerms(logical)[k])
    /\ result.labelIncludes = {t.label : t \in Range(IncludedTerms(logical))}
    /\ result.labelExcludes = {t.label : t \in {u \in Range(logical) : u.excluded}}
    /\ \A t \in {u \in Range(logical) : u.excluded} :
          expandSynonyms(t.label) \subseteq result.excludes
    /\ (\A t \in Range(logical) : ~t.excluded) => result.excludes = {}

\* C14 as stated: two adjacent terms fuse only when both are non-excluded
\* and their phrase is in the override set; a fused pair gives one group,
\* exactly expandSynonyms(phrase), labelled by the phrase, and every other
\* non-empty term gives one group, in encounter order
C14_PhraseFusion ==
    pc = "parse_done" =>
        ParsedAs(parsed, LogicalTerms(TermsOf(query), 1, FusesBothPlain(TermsOf(query))))

\* C14, amended: two adjacent terms fuse when the second is non-excluded
\* and their phrase is in the override set, whether or not the first is
\* excluded; a fused pair whose first term is excluded puts
\* expandSynonyms(phrase) into the excludes and the phrase into the
\* exclude labels
C14_PhraseFusionAmended ==
    pc = "parse_done" =>
        ParsedAs(parsed, LogicalTerms(TermsOf(query), 1, FusesNextPlain(TermsOf(query))))

\* an excluded phrase followed by a plain term
C14_Witness ==
    /\ pc = "parse_done"
    /\ query = "-grain free chicken"
    /\ parsed.excludes = {"grain_free", "no_grain", "no_grains", "grainfree"}
    /\ parsed.labelExcludes = {"grain_free"}
    /\ parsed.includeGroups = <<{"chicken"}>>
    /\ parsed.labelIncludes = {"chicken"}

\* the weighted score of one include group for a product, as a numerator
\* over the number of ordered ingredients (over 1 when there are none): 0
\* when no token of the group is a token of the product, the positional
\* score 1 - index / length of the first ingredient a token matches, and 1
\* when no ingredient matches
GroupTokens(group) == {normalizeToken(t) : t \in group} \ {""}

GroupIsMatched(group, product) ==
    \E t \in GroupTokens(group) : hasToken(productTokenSet(product), t)

IngredientHits(group, ordered) ==
    {i \in 1..Len(ordered) :
        \E t \in GroupTokens(group) : ingredientTokenMatches(t, ordered[i])}

ScoreDenominator(ordered) == IF Len(ordered) = 0 THEN 1 ELSE Len(ordered)

WeightedScore(group, product, ordered) ==
    IF ~GroupIsMatched(group, product) THEN 0
    ELSE IF IngredientHits(group, ordered) = {} THEN ScoreDenominator(ordered)
    ELSE Len(ordered) + 1
         - (CHOOSE i \in IngredientHits(group, ordered) :
               \A j \in IngredientHits(group, ordered) : i <= j)

RECURSIVE SumWeightedScores(_, _, _)
SumWeightedScores(groups, product, ordered) ==
    IF groups = <<>> THEN 0
    ELSE WeightedScore(Head(groups), product, ordered)
         + SumWeightedScores(Tail(groups), product, ordered)

\* m is total / count * 100 rounded to the nearest integer, halves up, for
\* total = num / den
IsRoundedPercent(m, num, den, count) ==
    /\ 2 * den * count * m <= 200 * num + den * count
    /\ 200 * num + den * count < 2 * den * count * (m + 1)

\* C15 as stated: a result returned by computeMatch has an integer match
\* between 0 and 100 that is the rounded percentage of the sum of the
\* weighted scores of the matched groups over neededGroups, 0 when
\* neededGroups = 0, and 0 <= matchedGroups <= neededGroups = |includeGroups|
C15_MatchFormula ==
    (pc = "match_done" /\ IsMatchResult(resA)) =>
        /\ resA.match \in 0..100
        /\ resA.neededGroups = Len(parsed.includeGroups)
        /\ resA.matchedGroups \in 0..resA.neededGroups
        /\ resA.neededGroups = 0 => resA.match = 0
        /\ resA.neededGroups > 0 =>
              IsRoundedPercent(resA.match,
                  SumWeightedScores(parsed.includeGroups, prodA,
                                    orderedIngredientTokens(prodA)),
                  ScoreDenominator(orderedIngredientTokens(prodA)),
                  resA.neededGroups)

\* C15, amended: the match of a shown result is that rounded percentage;
\* the match of a hidden result is 0, whatever its groups match; the ranges
\* hold for both
C15_MatchRange ==
    (pc = "match_done" /\ IsMatchResult(resA)) =>
        /\ resA.match \in 0..100
        /\ resA.neededGroups = Len(parsed.includeGroups)
        /\ resA.matchedGroups \in 0..resA.neededGroups
        /\ resA.show = FALSE => resA.match = 0
        /\ (resA.show = TRUE /\ resA.neededGroups = 0) => resA.match = 0
        /\ (resA.show = TRUE /\ resA.neededGroups > 0) =>
              IsRoundedPercent(resA.match,
                  SumWeightedScores(parsed.includeGroups, prodA,
                                    orderedIngredientTokens(prodA)),
                  ScoreDenominator(orderedIngredientTokens(prodA)),
                  resA.neededGroups)

\* two groups, one matched at the first and one at the second of four
\* ordered ingredients: (1 + 0.75) / 2 * 100 = 87.5, rounded to 88
C15_Witness ==
    /\ pc = "match_done"
    /\ query = "peas  Chicken"
    /\ prodA.ingredients_list.text = "chicken;peas;chicken_meal"
    /\ prodA.protein_sources.items = <<"chicken">>
    /\ resA.show = TRUE
    /\ resA.match = 88
    /\ resA.matchedGroups = 2 /\ resA.neededGroups = 2

\* what a click on Clear leaves: an empty removed set, the empty parse
\* result as query state, and the rendering of the empty query
ClearResets ==
    ClearClick =>
        /\ removedProductIds' = {}
        /\ currentState' = emptyParseResult
        /\ inputValue' = ""
        /\ cards' = <<>>

\* C16 as stated: a product whose remove button was clicked is not among the
\* cards of any later render until Clear is clicked; Clear empties the
\* removed set and resets the query state; at most 6 cards are rendered
C16_RemovedStayHidden ==
    /\ [](pc = "page" =>
            /\ \A i \in 1..Len(cards) : cards[i].product \notin clicked
            /\ Len(cards) <= 6)
    /\ [][ClearResets]_vars

\* C16, amended: the same for the products that have an id; a click on the
\* remove button of a product without id removes nothing, the removed set
\* holds exactly the ids of the clicked products that have one
C16_RemovedWithIdStayHidden ==
    /\ [](pc = "page" =>
            /\ \A i \in 1..Len(cards) :
                  \A p \in clicked : p.id # "" => cards[i].product.id # p.id
            /\ removedProductIds = {p.id : p \in {c \in clicked : c.id # ""}}
            /\ Len(cards) <= 6)
    /\ [][ClearResets]_vars

\* two products removed under the query "chicken", and the remove button of
\* the product without id clicked, which is still the sixth card
C16_Witness ==
    /\ pc = "page"
    /\ currentState.labelIncludes = {"chicken"}
    /\ removedProductIds = {"a1", "a2"}
    /\ Cardinality(clicked) = 3
    /\ Len(cards) = 6
    /\ cards[6].product.id = "" /\ cards[6].product \in clicked
    /\ \A i \in 1..Len(cards) : cards[i].product.id \notin {"a1", "a2"}

====
